---------------------------- MODULE Spec2Model ----------------------------
(***************************************************************************)
(* Water-management analytics prototype: the two CSV parsers               *)
(* (src/parsers.py), the aggregation functions (src/analytics.py) and the  *)
(* alert functions (src/src/alerts.py), as state machines.                 *)
(*                                                                         *)
(* Every function of the repository is a synchronous call.  A call is      *)
(* modelled by the three variables pc / arg / ret: pc = "call" before the  *)
(* function runs (arg holds its arguments), pc = "return" once it has      *)
(* returned (ret holds the returned table), pc = "raise" when an           *)
(* exception left the function (ret names it).  load_quality_csv is a row  *)
(* loop with mutable scan state and is modelled one loop iteration per     *)
(* step.                                                                   *)
(*                                                                         *)
(* Data conventions                                                        *)
(*   - a csv file is the sequence of its lines, a line a tuple of cells,   *)
(*     a cell a string;                                                    *)
(*   - a timestamp is a number of minutes since 01/01/2024 00:00 local     *)
(*     time (Asia/Kolkata has no clock shifts, so tz_localize neither      *)
(*     shifts nor invalidates a parsed time);                              *)
(*   - NaN and NaT are two reserved numbers, None the string "None" (a     *)
(*     None bound is NaN once it is a cell of a float column);            *)
(*   - a DataFrame is a record with its columns and the sequence of its    *)
(*     rows.                                                               *)
(***************************************************************************)
EXTENDS Integers, Sequences, FiniteSets, TLC

VARIABLES
    pc,             \* "call" | "scan" | "return" | "raise"
    arg,            \* the arguments of the call under way
    ret,            \* the returned value, or the exception raised
    rows,           \* load_quality_csv: raw.values.tolist()
    idx,            \* load_quality_csv: number of rows the loop has consumed
    current_param,  \* load_quality_csv: current_param
    safe_min,       \* load_quality_csv: safe_min
    safe_max,       \* load_quality_csv: safe_max
    in_table,       \* load_quality_csv: in_table
    out             \* load_quality_csv: out

vars == <<pc, arg, ret, rows, idx, current_param, safe_min, safe_max, in_table, out>>

scanVars == <<rows, idx, current_param, safe_min, safe_max, in_table, out>>

-----------------------------------------------------------------------------
(* Generic helpers *)

\* NaN and NaT are numbers no reading, bound or timestamp of the model equals;
\* every comparison and every sum tests for them first, as IEEE and pandas do.
NaN == 0 - 1000000
NaT == 0 - 2000000
None == "None"

\* the value of ret before the function has returned
NoValue == [kind |-> "none"]

\* the value of ret when exception type propagated out of the function
Exception(type) == [kind |-> "exception", type |-> type]

Max(a, b) == IF a >= b THEN a ELSE b

Abs(a) == IF a >= 0 THEN a ELSE -a

Range(s) == {s[i] : i \in 1..Len(s)}

RECURSIVE SeqsUpTo(_, _)
\* all sequences over S of length 0..n
SeqsUpTo(S, n) == IF n = 0 THEN {<<>>}
                  ELSE LET shorter == SeqsUpTo(S, n - 1)
                       IN  shorter \cup {Append(s, x) : s \in {t \in shorter : Len(t) = n - 1}, x \in S}

RECURSIVE Concat(_)
\* pd.concat(blocks, ignore_index=True) of a sequence of row sequences
Concat(blocks) == IF blocks = <<>> THEN <<>> ELSE Head(blocks) \o Concat(Tail(blocks))

\* No call under way in load_quality_csv's loop
ScanIdle == /\ rows = <<>>
            /\ idx = 0
            /\ current_param = None
            /\ safe_min = NaN
            /\ safe_max = NaN
            /\ in_table = FALSE
            /\ out = <<>>

-----------------------------------------------------------------------------
(* pandas string and parsing primitives, on the cells the model uses *)

\* str.strip()
Strip(s) == CASE s = " date " -> "date"
              [] s = "  "     -> ""
              [] OTHER        -> s

\* str.lower()
Lower(s) == CASE s = "Date"                -> "date"
              [] s = "Time"                -> "time"
              [] s = "TIME"                -> "time"
              [] s = "Totalizer"           -> "totalizer"
              [] s = "Flow Totalizer (m3)" -> "flow totalizer (m3)"
              [] s = "Value"               -> "value"
              [] s = "Plant A"             -> "plant a"
              [] OTHER                     -> s

\* str.contains("totalizer") on a lower-cased cell
ContainsTotalizer(s) == s \in {"totalizer", "flow totalizer (m3)"}

\* str.replace(",", "")
RemoveCommas(s) == CASE s = "1,103" -> "1103"
                     [] OTHER       -> s

\* pd.to_numeric(..., errors="coerce")
ToNumeric(s) == CASE s = "100"  -> 100
                  [] s = "103"  -> 103
                  [] s = "105"  -> 105
                  [] s = "110"  -> 110
                  [] s = "1103" -> 1103
                  [] s = "10"   -> 10
                  [] s = "25"   -> 25
                  [] s = "30"   -> 30
                  [] s = "50"   -> 50
                  [] OTHER      -> NaN

\* minutes of a day-first date cell since 01/01/2024, NaT when unparseable
DateMinutes(d) == CASE d = "01/01/2024" -> 0
                    [] d = "02/01/2024" -> 1440
                    [] OTHER            -> NaT

\* minutes of a time cell, NaT when unparseable
TimeMinutes(t) == CASE t = "00:00" -> 0
                    [] t = "00:05" -> 5
                    [] t = "00:10" -> 10
                    [] t = "00:15" -> 15
                    [] OTHER       -> NaT

\* pd.to_datetime(date + " " + time, dayfirst=True, errors="coerce")
\* followed by tz_localize(TZ, nonexistent="shift_forward", ambiguous="NaT")
ToDatetime(d, t) == IF DateMinutes(d) = NaT \/ TimeMinutes(t) = NaT THEN NaT
                    ELSE DateMinutes(d) + TimeMinutes(t)

\* pd.read_csv(path, dtype=str).fillna(""): an empty file raises
\* EmptyDataError; otherwise the first line names the columns and only the
\* lines after it are rows of the frame.
ReadCsvRaises(lines) == lines = <<>>

ReadCsv(lines) == Tail(lines)

-----------------------------------------------------------------------------
(* load_flow_csv, src/parsers.py *)

FLOW_COLUMNS == <<"timestamp", "totalizer", "consumption">>

\* is_header, on one row of raw
is_header(row) == /\ Lower(Strip(row[1])) = "date"
                  /\ Lower(Strip(row[2])) = "time"
                  /\ ContainsTotalizer(Lower(Strip(row[3])))

\* header_idxs: the 0-based positions of the header rows, then len(raw)
header_idxs(raw) ==
    LET RECURSIVE Scan(_)
        Scan(i) == IF i > Len(raw) THEN <<Len(raw)>>
                   ELSE IF is_header(raw[i]) THEN <<i - 1>> \o Scan(i + 1)
                   ELSE Scan(i + 1)
    IN  Scan(1)

\* the filter "keep rows with all three fields"
HasAllFields(row) == /\ Strip(row[1]) # ""
                     /\ Strip(row[2]) # ""
                     /\ Strip(row[3]) # ""

\* a block row after type parsing
ParseFlowRow(row) == [timestamp |-> ToDatetime(Strip(row[1]), Strip(row[2])),
                      totalizer |-> ToNumeric(RemoveCommas(row[3]))]

\* a dropna that looks at the timestamp only
dropna_timestamp_only(r) == r.timestamp # NaT

\* dropna(subset=["timestamp", "totalizer"])
FlowRowComplete(r) == r.timestamp # NaT /\ r.totalizer # NaN

\* x put into the timestamp-sorted sequence t at every place that keeps it sorted
Insertions(x, t) ==
    {SubSeq(t, 1, k) \o <<x>> \o SubSeq(t, k + 1, Len(t)) :
        k \in {j \in 0..Len(t) : /\ (j = 0 \/ t[j].timestamp <= x.timestamp)
                                 /\ (j = Len(t) \/ x.timestamp <= t[j + 1].timestamp)}}

RECURSIVE SortOutcomes(_)
\* sort_values("timestamp") with the default kind="quicksort", which is not
\* stable: every timestamp-sorted arrangement of the rows is a possible result.
SortOutcomes(s) == IF s = <<>> THEN {<<>>}
                   ELSE UNION {Insertions(Head(s), t) : t \in SortOutcomes(Tail(s))}

\* lines 32-47: one block of raw, rows start..end-1 (0-based), filtered and parsed
ParsedBlock(raw, start, end) ==
    LET block  == SubSeq(raw, start + 1, end)
        kept   == SelectSeq(block, HasAllFields)
        parsed == [i \in 1..Len(kept) |-> ParseFlowRow(kept[i])]
    IN  SelectSeq(parsed, FlowRowComplete)

\* lines 26-48: the blocks before sorting, one per pair of consecutive
\* header_idxs entries with start < end
UnsortedBlocks(raw) ==
    LET h == header_idxs(raw)
        RECURSIVE Loop(_)
        Loop(i) == IF i > Len(h) - 1 THEN <<>>
                   ELSE IF h[i] + 1 >= h[i + 1] THEN Loop(i + 1)
                   ELSE <<ParsedBlock(raw, h[i] + 1, h[i + 1])>> \o Loop(i + 1)
    IN  Loop(1)

RECURSIVE BlockOutcomes(_)
\* the possible values of the list blocks after the loop
BlockOutcomes(bs) == IF bs = <<>> THEN {<<>>}
                     ELSE {<<b>> \o rest : b \in SortOutcomes(Head(bs)),
                                           rest \in BlockOutcomes(Tail(bs))}

\* a load_flow_csv that forgets drop_duplicates
keep_all_rows(s) == s

RECURSIVE drop_duplicates(_)
\* drop_duplicates(subset=["timestamp"]): the first row of each timestamp is kept
drop_duplicates(s) ==
    IF s = <<>> THEN <<>>
    ELSE LET init == drop_duplicates(SubSeq(s, 1, Len(s) - 1))
             last == s[Len(s)]
         IN  IF \E i \in 1..Len(init) : init[i].timestamp = last.timestamp
             THEN init ELSE Append(init, last)

\* .sort_values("timestamp") of rows with distinct timestamps
sort_values(s) == CHOOSE t \in SortOutcomes(s) : TRUE

\* a consumption measured from the highest totalizer seen so far instead of
\* from the preceding reading
Consumption_from_peak(df, i) ==
    LET RECURSIVE Peak(_)
        Peak(j) == IF j = 1 THEN df[1].totalizer ELSE Max(df[j].totalizer, Peak(j - 1))
    IN  IF i = 1 THEN 0 ELSE Max(0, df[i].totalizer - Peak(i - 1))

\* lines 60-64: diff(), negatives set to 0, the first row's NaN filled with 0
Consumption(df, i) ==
    LET diff == IF i = 1 THEN NaN ELSE df[i].totalizer - df[i - 1].totalizer
        clamped == IF diff # NaN /\ diff < 0 THEN 0 ELSE diff
    IN  IF clamped = NaN THEN 0 ELSE clamped

WithConsumption(df) ==
    [i \in 1..Len(df) |-> [timestamp   |-> df[i].timestamp,
                           totalizer   |-> df[i].totalizer,
                           consumption |-> Consumption(df, i)]]

\* lines 50-66 for one value of blocks
FlowFrame(blocks) ==
    IF blocks = <<>>
    THEN [kind |-> "DataFrame", columns |-> FLOW_COLUMNS, typed |-> FALSE, rows |-> <<>>]
    ELSE [kind |-> "DataFrame", columns |-> FLOW_COLUMNS, typed |-> TRUE,
          rows |-> WithConsumption(sort_values(drop_duplicates(Concat(blocks))))]

\* every value load_flow_csv can return for the file
load_flow_csv(lines) ==
    {FlowFrame(blocks) : blocks \in BlockOutcomes(UnsortedBlocks(ReadCsv(lines)))}

-----------------------------------------------------------------------------
(* Flow files of the model *)

MaxFlowRows == 5

HEADER_ROW == <<"Date", "Time", "Totalizer">>
HEADER_ROW_VARIANT == <<" date ", "TIME", "Flow Totalizer (m3)">>
TITLE_ROW == <<"Plant A", "", "">>

FlowDataRows == { <<"01/01/2024", "00:00", "100">>,
                  <<"01/01/2024", "00:05", "105">>,
                  <<"01/01/2024", "00:10", "103">>,
                  <<"01/01/2024", "00:15", "110">>,
                  <<"01/01/2024", "00:05", "110">>,
                  <<"01/01/2024", "abc", "105">> }

\* inside the file the header is written the loose way is_header accepts
FlowLines == {HEADER_ROW_VARIANT} \cup FlowDataRows

\* the empty file, and every file of a first line and up to MaxFlowRows lines
FlowFiles(n) == {<<>>} \cup {<<first>> \o rest : first \in {HEADER_ROW, TITLE_ROW},
                                                 rest \in SeqsUpTo(FlowLines, n)}

InitFlow == /\ pc = "call"
            /\ arg \in {[fn |-> "load_flow_csv", path |-> f] : f \in FlowFiles(MaxFlowRows)}
            /\ ret = NoValue
            /\ ScanIdle

LoadFlowCsv ==
    /\ pc = "call"
    /\ arg.fn = "load_flow_csv"
    /\ IF ReadCsvRaises(arg.path)
       THEN /\ pc' = "raise"
            /\ ret' = Exception("EmptyDataError")
       ELSE /\ pc' = "return"
            /\ ret' \in load_flow_csv(arg.path)
    /\ UNCHANGED <<arg, scanVars>>

NextFlow == LoadFlowCsv

SpecFlow == InitFlow /\ [][NextFlow]_vars

-----------------------------------------------------------------------------
(* load_quality_csv, src/parsers.py *)

QUALITY_COLUMNS == <<"timestamp", "parameter", "value", "safe_min", "safe_max">>

PARAM_HEADER_TDS == "1. TDS (TDS), Safe Range: (20 to 40)"
PARAM_HEADER_PH  == "2. pH (pH), safe range: (n/a)"
PARAM_HEADER_HUM == "3. HUMIDITY (HUMIDITY), Safe Range: (20 to 40 to 50)"

\* PARAM_RE.match(cell): whether the cell is "<n>. <name>, Safe Range: (<text>)"
\* (re.I), and its groups 1 and 2
ParamMatches(cell) == cell \in {PARAM_HEADER_TDS, PARAM_HEADER_PH, PARAM_HEADER_HUM}

ParamGroup1(cell) == CASE cell = PARAM_HEADER_TDS -> "TDS (TDS)"
                       [] cell = PARAM_HEADER_PH  -> "pH (pH)"
                       [] cell = PARAM_HEADER_HUM -> "HUMIDITY (HUMIDITY)"

ParamGroup2(cell) == CASE cell = PARAM_HEADER_TDS -> "20 to 40"
                       [] cell = PARAM_HEADER_PH  -> "n/a"
                       [] cell = PARAM_HEADER_HUM -> "20 to 40 to 50"

\* text.split("to")
SplitTo(text) == CASE text = "20 to 40"       -> <<"20 ", " 40">>
                   [] text = "20 to 40 to 50" -> <<"20 ", " 40 ", " 50">>
                   [] OTHER                   -> <<text>>

\* float(s.strip()); NaN stands for the ValueError
Float(s) == CASE s \in {"20 ", "20"}         -> 20
              [] s \in {" 40", " 40 ", "40"} -> 40
              [] s \in {" 50", "50"}         -> 50
              [] OTHER                       -> NaN

\* _parse_safe_range: (None, None) unless the text is two floats around one "to"
_parse_safe_range(text) ==
    LET parts == SplitTo(text)
    IN  IF Len(parts) # 2 THEN <<NaN, NaN>>
        ELSE IF Float(parts[1]) = NaN \/ Float(parts[2]) = NaN THEN <<NaN, NaN>>
        ELSE <<Float(parts[1]), Float(parts[2])>>

\* cells = [str(x).strip() for x in r if str(x).strip() != ""]
Cells(r) == LET NonEmpty(x) == Strip(x) # ""
                kept == SelectSeq(r, NonEmpty)
            IN  [i \in 1..Len(kept) |-> Strip(kept[i])]

\* the order of the parameter names under sort_values (code-point order)
ParamRank(p) == CASE p = "HUMIDITY (HUMIDITY)" -> 1
                  [] p = "TDS (TDS)"           -> 2
                  [] p = "pH (pH)"             -> 3
                  [] OTHER                     -> 4

\* (parameter, timestamp) of a before that of b
KeyBefore(a, b) == \/ ParamRank(a.parameter) < ParamRank(b.parameter)
                   \/ /\ a.parameter = b.parameter
                      /\ a.timestamp < b.timestamp

RECURSIVE SortedQualityRows(_, _)
\* the sequences of 0..n rows drawn from R that are in (parameter, timestamp)
\* order, rows with the same key in any order
SortedQualityRows(R, n) ==
    IF n = 0 THEN {<<>>}
    ELSE LET shorter == SortedQualityRows(R, n - 1)
         IN  shorter \cup
             UNION {{Append(s, r) : r \in {x \in R : Len(s) = 0 \/ ~KeyBefore(x, s[Len(s)])}} :
                       s \in {t \in shorter : Len(t) = n - 1}}

RECURSIVE AscendingFlowRows(_, _)
\* the sequences of 0..n rows drawn from R whose timestamps strictly ascend
AscendingFlowRows(R, n) ==
    IF n = 0 THEN {<<>>}
    ELSE LET shorter == AscendingFlowRows(R, n - 1)
         IN  shorter \cup
             UNION {{Append(s, r) : r \in {x \in R : Len(s) = 0 \/ s[Len(s)].timestamp < x.timestamp}} :
                       s \in {t \in shorter : Len(t) = n - 1}}

RECURSIVE SortByParamTime(_)
\* sort_values(["parameter", "timestamp"]): several keys are sorted with a
\* stable lexsort, so rows with equal keys keep their order
SortByParamTime(s) ==
    IF s = <<>> THEN <<>>
    ELSE LET init == SortByParamTime(SubSeq(s, 1, Len(s) - 1))
             x    == s[Len(s)]
             k    == CHOOSE j \in 0..Len(init) :
                        /\ \A i \in 1..j : ~KeyBefore(x, init[i])
                        /\ \A i \in (j + 1)..Len(init) : KeyBefore(x, init[i])
         IN  SubSeq(init, 1, k) \o <<x>> \o SubSeq(init, k + 1, Len(init))

\* the row the loop looks at
Row == rows[idx + 1]

Scanning == pc = "scan" /\ idx < Len(rows)

\* line 114: the Date/Time table header while a parameter is active
IsTableHeader(cells) == /\ current_param \notin {None, ""}
                        /\ Len(cells) >= 3
                        /\ Lower(cells[1]) = "date"
                        /\ Lower(cells[2]) = "time"

\* lines 92-98
QualityReadCsv ==
    /\ pc = "call"
    /\ arg.fn = "load_quality_csv"
    /\ IF ReadCsvRaises(arg.path)
       THEN /\ pc' = "raise"
            /\ ret' = Exception("EmptyDataError")
            /\ UNCHANGED scanVars
       ELSE /\ pc' = "scan"
            /\ rows' = ReadCsv(arg.path)
            /\ idx' = 0
            /\ current_param' = None
            /\ safe_min' = NaN
            /\ safe_max' = NaN
            /\ in_table' = FALSE
            /\ out' = <<>>
            /\ ret' = ret
    /\ arg' = arg

\* lines 101-103: a row with no non-empty cell
SkipBlankRow ==
    /\ Scanning
    /\ Cells(Row) = <<>>
    /\ idx' = idx + 1
    /\ UNCHANGED <<pc, arg, ret, rows, current_param, safe_min, safe_max, in_table, out>>

\* a parameter header that leaves in_table as it is
param_header_keeps_table ==
    /\ Scanning
    /\ Cells(Row) # <<>>
    /\ ParamMatches(Cells(Row)[1])
    /\ current_param' = Strip(ParamGroup1(Cells(Row)[1]))
    /\ safe_min' = _parse_safe_range(Strip(ParamGroup2(Cells(Row)[1])))[1]
    /\ safe_max' = _parse_safe_range(Strip(ParamGroup2(Cells(Row)[1])))[2]
    /\ idx' = idx + 1
    /\ UNCHANGED <<pc, arg, ret, rows, out, in_table>>

\* lines 106-111: a parameter header
ParamHeaderRow ==
    /\ Scanning
    /\ Cells(Row) # <<>>
    /\ ParamMatches(Cells(Row)[1])
    /\ current_param' = Strip(ParamGroup1(Cells(Row)[1]))
    /\ safe_min' = _parse_safe_range(Strip(ParamGroup2(Cells(Row)[1])))[1]
    /\ safe_max' = _parse_safe_range(Strip(ParamGroup2(Cells(Row)[1])))[2]
    /\ in_table' = FALSE
    /\ idx' = idx + 1
    /\ UNCHANGED <<pc, arg, ret, rows, out>>

\* lines 114-116: the table header
TableHeaderRow ==
    /\ Scanning
    /\ Cells(Row) # <<>>
    /\ ~ParamMatches(Cells(Row)[1])
    /\ IsTableHeader(Cells(Row))
    /\ in_table' = TRUE
    /\ idx' = idx + 1
    /\ UNCHANGED <<pc, arg, ret, rows, current_param, safe_min, safe_max, out>>

\* lines 119-134: a table row that is appended to out
TableRow ==
    /\ Scanning
    /\ Cells(Row) # <<>>
    /\ ~ParamMatches(Cells(Row)[1])
    /\ ~IsTableHeader(Cells(Row))
    /\ in_table /\ current_param \notin {None, ""}
    /\ Len(Cells(Row)) >= 3
    /\ ToDatetime(Cells(Row)[1], Cells(Row)[2]) # NaT
    /\ out' = Append(out, [timestamp |-> ToDatetime(Cells(Row)[1], Cells(Row)[2]),
                           parameter |-> current_param,
                           value     |-> ToNumeric(RemoveCommas(Cells(Row)[3])),
                           safe_min  |-> safe_min,
                           safe_max  |-> safe_max])
    /\ idx' = idx + 1
    /\ UNCHANGED <<pc, arg, ret, rows, current_param, safe_min, safe_max, in_table>>

\* lines 119-126 and the fall-through of line 119: a row that emits nothing
\* (outside a table, fewer than three cells, or an unparseable date/time)
IgnoredRow ==
    /\ Scanning
    /\ Cells(Row) # <<>>
    /\ ~ParamMatches(Cells(Row)[1])
    /\ ~IsTableHeader(Cells(Row))
    /\ \/ ~(in_table /\ current_param \notin {None, ""})
       \/ Len(Cells(Row)) < 3
       \/ ToDatetime(Cells(Row)[1], Cells(Row)[2]) = NaT
    /\ idx' = idx + 1
    /\ UNCHANGED <<pc, arg, ret, rows, current_param, safe_min, safe_max, in_table, out>>

\* lines 136-140
QualityReturn ==
    /\ pc = "scan"
    /\ idx = Len(rows)
    /\ pc' = "return"
    /\ ret' = IF out = <<>>
              THEN [kind |-> "DataFrame", columns |-> QUALITY_COLUMNS, typed |-> FALSE,
                    rows |-> <<>>]
              ELSE [kind |-> "DataFrame", columns |-> QUALITY_COLUMNS, typed |-> TRUE,
                    rows |-> SortByParamTime(out)]
    /\ UNCHANGED <<arg, scanVars>>

-----------------------------------------------------------------------------
(* Quality files of the model *)

MaxQualityRows == 4

TABLE_HEADER_ROW == <<"Date", "Time", "Value">>

QualityLines == { <<PARAM_HEADER_TDS, "", "">>,
                  <<PARAM_HEADER_PH, "", "">>,
                  <<PARAM_HEADER_HUM, "", "">>,
                  TABLE_HEADER_ROW,
                  <<"", "", "">>,
                  <<"01/01/2024", "00:00", "10">>,
                  <<"01/01/2024", "00:05", "25">>,
                  <<"01/01/2024", "00:05", "abc">>,
                  <<"abc", "00:00", "25">>,
                  <<"01/01/2024", "00:10", "">> }

QualityFiles(n) == {<<>>} \cup {<<first>> \o rest :
                                first \in {TITLE_ROW, <<PARAM_HEADER_TDS, "", "">>},
                                rest \in SeqsUpTo(QualityLines, n)}

InitQuality == /\ pc = "call"
               /\ arg \in {[fn |-> "load_quality_csv", path |-> f] : f \in QualityFiles(MaxQualityRows)}
               /\ ret = NoValue
               /\ ScanIdle

NextQuality == \/ QualityReadCsv
               \/ SkipBlankRow
               \/ ParamHeaderRow
               \/ TableHeaderRow
               \/ TableRow
               \/ IgnoredRow
               \/ QualityReturn

SpecQuality == InitQuality /\ [][NextQuality]_vars

\* files for following the scan row by row
MaxScanRows == 4

ScanLines == { <<PARAM_HEADER_TDS, "", "">>,
               <<PARAM_HEADER_PH, "", "">>,
               <<PARAM_HEADER_HUM, "", "">>,
               TABLE_HEADER_ROW,
               <<"", "", "">>,
               <<"01/01/2024", "00:00", "10">>,
               <<"01/01/2024", "00:05", "25">>,
               <<"abc", "00:00", "25">> }

ScanFiles(n) == {<<first>> \o rest :
                    first \in {TITLE_ROW, <<PARAM_HEADER_TDS, "", "">>},
                    rest \in SeqsUpTo(ScanLines, n)}

InitScan == /\ pc = "call"
            /\ arg \in {[fn |-> "load_quality_csv", path |-> f] : f \in ScanFiles(MaxScanRows)}
            /\ ret = NoValue
            /\ ScanIdle

SpecScan == InitScan /\ [][NextQuality]_vars

\* both parsers
InitParsers == InitFlow \/ InitQuality

NextParsers == LoadFlowCsv \/ NextQuality

SpecParsers == InitParsers /\ [][NextParsers]_vars

-----------------------------------------------------------------------------
(* Files with defective rows *)

MaxDefectRows == 4

\* flow rows with an empty date, an empty totalizer, an unparseable time and an
\* unparseable number
FlowDefectRows == { <<"", "00:05", "105">>,
                    <<"01/01/2024", "00:10", "  ">>,
                    <<"01/01/2024", "abc", "105">>,
                    <<"01/01/2024", "00:10", "abc">> }

FlowDefectLines == {HEADER_ROW_VARIANT,
                    <<"01/01/2024", "00:00", "100">>,
                    <<"01/01/2024", "00:05", "105">>,
                    <<"01/01/2024", "00:10", "103">>} \cup FlowDefectRows

FlowDefectFiles(n) == {<<>>} \cup {<<first>> \o rest : first \in {HEADER_ROW, TITLE_ROW},
                                                       rest \in SeqsUpTo(FlowDefectLines, n)}

InitDefects ==
    \/ /\ pc = "call"
       /\ arg \in {[fn |-> "load_flow_csv", path |-> f] : f \in FlowDefectFiles(MaxDefectRows)}
       /\ ret = NoValue
       /\ ScanIdle
    \/ /\ pc = "call"
       /\ arg \in {[fn |-> "load_quality_csv", path |-> f] : f \in QualityFiles(MaxDefectRows)}
       /\ ret = NoValue
       /\ ScanIdle

NextDefects == LoadFlowCsv \/ NextQuality

SpecDefects == InitDefects /\ [][NextDefects]_vars

-----------------------------------------------------------------------------
(* Quality analytics, src/analytics.py *)

MINUTES_PER_DAY == 1440

\* timestamp.dt.date, as a number of days
Date(ts) == ts \div MINUTES_PER_DAY

RECURSIVE Sum(_)
Sum(s) == IF s = <<>> THEN 0 ELSE Head(s) + Sum(Tail(s))

\* the values of a column without its NaN cells (skipna)
NotNaN(s) == LET Known(x) == x # NaN IN SelectSeq(s, Known)

\* Series.min() / Series.max(): NaN cells are skipped, NaN when none is left
SeriesMin(s) == IF NotNaN(s) = <<>> THEN NaN
                ELSE CHOOSE m \in Range(NotNaN(s)) : \A x \in Range(NotNaN(s)) : m <= x

SeriesMax(s) == IF NotNaN(s) = <<>> THEN NaN
                ELSE CHOOSE m \in Range(NotNaN(s)) : \A x \in Range(NotNaN(s)) : m >= x

\* NaN where a float is kept as the ratio num/den
NaNRatio == [num |-> 0, den |-> 0]

\* Series.mean(): the fraction num/den over the cells that are not NaN
SeriesMean(s) == IF NotNaN(s) = <<>> THEN NaNRatio
                 ELSE [num |-> Sum(NotNaN(s)), den |-> Len(NotNaN(s))]

Values(s) == [i \in 1..Len(s) |-> s[i].value]

\* an in_range that lets a reading without bounds pass
in_range_without_bounds(r) ==
    \/ r.safe_min = NaN
    \/ r.safe_max = NaN
    \/ (r.value # NaN /\ r.value >= r.safe_min /\ r.value <= r.safe_max)

\* (q["value"] >= q["safe_min"]) & (q["value"] <= q["safe_max"]): a comparison
\* with NaN on either side is False
in_range(r) == /\ r.value # NaN
               /\ r.safe_min # NaN
               /\ r.safe_max # NaN
               /\ r.value >= r.safe_min
               /\ r.value <= r.safe_max

\* number of rows of s whose in_range is b
CountInRange(s, b) == Cardinality({i \in 1..Len(s) : in_range(s[i]) = b})

\* the (parameter, date) keys of groupby(["parameter", "date"])
ComplianceKeys(q) == {<<q[i].parameter, Date(q[i].timestamp)>> : i \in 1..Len(q)}

RECURSIVE SortedKeys(_)
\* the group keys in the order groupby and sort_values emit them
SortedKeys(K) ==
    IF K = {} THEN <<>>
    ELSE LET m == CHOOSE k \in K : \A j \in K :
                     \/ ParamRank(k[1]) < ParamRank(j[1])
                     \/ (k[1] = j[1] /\ k[2] <= j[2])
         IN  <<m>> \o SortedKeys(K \ {m})

\* the rows of one (parameter, date) group
ComplianceGroup(q, key) ==
    LET InGroup(r) == r.parameter = key[1] /\ Date(r.timestamp) = key[2]
    IN  SelectSeq(q, InGroup)

\* lines 65-72: the aggregates of one group; pct_in_range = 100.0 * mean is the
\* fraction num/den
ComplianceRow(q, key) ==
    LET g == ComplianceGroup(q, key)
    IN  [parameter    |-> key[1],
         date         |-> key[2],
         pct_in_range |-> [num |-> 100 * CountInRange(g, TRUE), den |-> Len(g)],
         breaches     |-> CountInRange(g, FALSE),
         readings     |-> Len(g),
         avg_value    |-> SeriesMean(Values(g)),
         min_value    |-> SeriesMin(Values(g)),
         max_value    |-> SeriesMax(Values(g))]

COMPLIANCE_COLUMNS == <<"parameter", "date", "pct_in_range", "breaches", "readings",
                        "avg_value", "min_value", "max_value">>

quality_daily_compliance(quality) ==
    LET keys == SortedKeys(ComplianceKeys(quality.rows))
    IN  [kind |-> "DataFrame", columns |-> COMPLIANCE_COLUMNS, typed |-> TRUE,
         rows |-> [i \in 1..Len(keys) |-> ComplianceRow(quality.rows, keys[i])]]

\* line 64: .dt on the timestamp column of the frame pd.DataFrame(columns=[...])
\* (object dtype) raises AttributeError
DtRaises(frame) == ~frame.typed

QualityDailyCompliance ==
    /\ pc = "call"
    /\ arg.fn = "quality_daily_compliance"
    /\ IF DtRaises(arg.quality)
       THEN /\ pc' = "raise"
            /\ ret' = Exception("AttributeError")
       ELSE /\ pc' = "return"
            /\ ret' = quality_daily_compliance(arg.quality)
    /\ UNCHANGED <<arg, scanVars>>

\* the rows of one parameter, reset_index(drop=True)
ParameterRows(q, param) == LET OfParam(r) == r.parameter = param IN SelectSeq(q, OfParam)

\* run_id = (in_range != in_range.shift(1)).cumsum(): the first row starts run 1
\* (its shifted value is NaN), every change of in_range starts the next run
run_id(g, i) ==
    Cardinality({j \in 1..i : j = 1 \/ in_range(g[j]) # in_range(g[j - 1])})

\* the element of a bool column that .iloc[0] returns is a numpy.bool_
numpy_bool(b) == [type |-> "numpy.bool_", value |-> b]

\* `x is False`: x is the very object False of Python, which a numpy.bool_ is not
is_False(x) == x.type = "bool" /\ x.value = FALSE

\* lines 88-99: the event of one segment
BreachEvent(param, seg) ==
    [parameter    |-> param,
     start        |-> seg[1].timestamp,
     end          |-> seg[Len(seg)].timestamp,
     duration_min |-> seg[Len(seg)].timestamp - seg[1].timestamp,
     min_value    |-> SeriesMin(Values(seg)),
     max_value    |-> SeriesMax(Values(seg)),
     readings     |-> Len(seg)]

\* lines 84-99 for one parameter: the events of its segments, in run order
ParameterEvents(param, g) ==
    LET runs == {run_id(g, i) : i \in 1..Len(g)}
        First(n) == CHOOSE i \in 1..Len(g) : run_id(g, i) = n /\ (i = 1 \/ run_id(g, i - 1) # n)
        Last(n)  == CHOOSE i \in 1..Len(g) : run_id(g, i) = n /\ (i = Len(g) \/ run_id(g, i + 1) # n)
        Segment(n) == SubSeq(g, First(n), Last(n))
        RECURSIVE Loop(_)
        Loop(n) == IF n \notin runs THEN <<>>
                   ELSE IF Segment(n) # <<>> /\ is_False(numpy_bool(in_range(Segment(n)[1])))
                        THEN <<BreachEvent(param, Segment(n))>> \o Loop(n + 1)
                        ELSE Loop(n + 1)
    IN  Loop(1)

EVENT_COLUMNS == <<"parameter", "start", "end", "duration_min", "min_value", "max_value",
                   "readings">>

RECURSIVE SortEvents(_)
\* sort_values(["parameter", "start"]), stable
SortEvents(s) ==
    IF s = <<>> THEN <<>>
    ELSE LET init == SortEvents(SubSeq(s, 1, Len(s) - 1))
             x    == s[Len(s)]
             Before(a, b) == \/ ParamRank(a.parameter) < ParamRank(b.parameter)
                             \/ (a.parameter = b.parameter /\ a.start < b.start)
             k    == CHOOSE j \in 0..Len(init) :
                        /\ \A i \in 1..j : ~Before(x, init[i])
                        /\ \A i \in (j + 1)..Len(init) : Before(x, init[i])
         IN  SubSeq(init, 1, k) \o <<x>> \o SubSeq(init, k + 1, Len(init))

\* lines 79-105
quality_breach_events(quality) ==
    LET q      == SortByParamTime(quality.rows)
        params == SortedKeys({<<q[i].parameter, 0>> : i \in 1..Len(q)})
        events == Concat([i \in 1..Len(params) |->
                             ParameterEvents(params[i][1], ParameterRows(q, params[i][1]))])
    IN  [kind |-> "DataFrame", columns |-> EVENT_COLUMNS, typed |-> events # <<>>,
         rows |-> SortEvents(events)]

QualityBreachEvents ==
    /\ pc = "call"
    /\ arg.fn = "quality_breach_events"
    /\ pc' = "return"
    /\ ret' = quality_breach_events(arg.quality)
    /\ UNCHANGED <<arg, scanVars>>

-----------------------------------------------------------------------------
(* Quality series of the model *)

MaxReadings == 3

PARAMETERS == {"TDS (TDS)", "pH (pH)"}

\* the bounds load_quality_csv attaches: TDS has the range 20..40, the range
\* text of pH did not parse
BoundsOf(p) == IF p = "TDS (TDS)" THEN <<20, 40>> ELSE <<NaN, NaN>>

\* the values read for a parameter: below, inside and above the range of TDS
ValuesOf(p) == IF p = "TDS (TDS)" THEN {10, 25, 30, 50, NaN} ELSE {25, NaN}

QualityReadings ==
    UNION {{[timestamp |-> t, parameter |-> p, value |-> v,
             safe_min |-> BoundsOf(p)[1], safe_max |-> BoundsOf(p)[2]] :
               t \in {0, 5, MINUTES_PER_DAY}, v \in ValuesOf(p)} : p \in PARAMETERS}

\* a quality frame as load_quality_csv returns it: sorted by (parameter,
\* timestamp), rows with the same key in any order; or the frame without rows
QualityFrames(n) ==
    {[kind |-> "DataFrame", columns |-> QUALITY_COLUMNS, typed |-> FALSE, rows |-> <<>>]}
    \cup {[kind |-> "DataFrame", columns |-> QUALITY_COLUMNS, typed |-> TRUE, rows |-> s] :
            s \in SortedQualityRows(QualityReadings, n) \ {<<>>}}

InitQualityAnalytics ==
    /\ pc = "call"
    /\ arg \in {[fn |-> f, quality |-> q] :
                  f \in {"quality_daily_compliance", "quality_breach_events"},
                  q \in QualityFrames(MaxReadings)}
    /\ ret = NoValue
    /\ ScanIdle

NextQualityAnalytics == \/ QualityDailyCompliance
                        \/ QualityBreachEvents

SpecQualityAnalytics == InitQualityAnalytics /\ [][NextQualityAnalytics]_vars

-----------------------------------------------------------------------------
(* Flow analytics, src/analytics.py *)

MINUTES_PER_HOUR == 60

\* timestamp.dt.hour
Hour(ts) == (ts % MINUTES_PER_DAY) \div MINUTES_PER_HOUR

SHIFT_DEF == << <<"Shift A", 6, 14>>, <<"Shift B", 14, 22>>, <<"Shift C", 22, 6>> >>

\* an _hour_to_shift whose day windows include their end hour
hour_to_shift_inclusive(h) ==
    LET Matches(d) == IF d[2] < d[3] THEN d[2] <= h /\ h <= d[3]
                      ELSE h >= d[2] \/ h < d[3]
    IN  IF \E i \in 1..Len(SHIFT_DEF) : Matches(SHIFT_DEF[i])
        THEN SHIFT_DEF[CHOOSE i \in 1..Len(SHIFT_DEF) :
                          /\ Matches(SHIFT_DEF[i])
                          /\ \A j \in 1..(i - 1) : ~Matches(SHIFT_DEF[j])][1]
        ELSE "Unknown"

\* lines 21-30: the first entry of SHIFT_DEF whose window holds h
_hour_to_shift(h) ==
    LET Matches(d) == IF d[2] < d[3] THEN d[2] <= h /\ h < d[3]
                      ELSE h >= d[2] \/ h < d[3]
    IN  IF \E i \in 1..Len(SHIFT_DEF) : Matches(SHIFT_DEF[i])
        THEN SHIFT_DEF[CHOOSE i \in 1..Len(SHIFT_DEF) :
                          /\ Matches(SHIFT_DEF[i])
                          /\ \A j \in 1..(i - 1) : ~Matches(SHIFT_DEF[j])][1]
        ELSE "Unknown"

\* the order of the shift names under sort_values
ShiftRank(name) == CASE name = "Shift A" -> 1
                     [] name = "Shift B" -> 2
                     [] name = "Shift C" -> 3
                     [] OTHER            -> 4

RECURSIVE SortedShiftKeys(_)
\* the (date, shift) keys in the order groupby and sort_values emit them
SortedShiftKeys(K) ==
    IF K = {} THEN <<>>
    ELSE LET m == CHOOSE k \in K : \A j \in K :
                     \/ k[1] < j[1]
                     \/ (k[1] = j[1] /\ ShiftRank(k[2]) <= ShiftRank(j[2]))
         IN  <<m>> \o SortedShiftKeys(K \ {m})

SHIFT_COLUMNS == <<"date", "shift", "total_consumption", "readings">>

\* lines 44-51
flow_shift_aggregates(flow) ==
    LET z == flow.rows
        KeyOf(r) == <<Date(r.timestamp), _hour_to_shift(Hour(r.timestamp))>>
        keys == SortedShiftKeys({KeyOf(z[i]) : i \in 1..Len(z)})
        Group(key) == LET InGroup(r) == KeyOf(r) = key IN SelectSeq(z, InGroup)
    IN  [kind |-> "DataFrame", columns |-> SHIFT_COLUMNS, typed |-> TRUE,
         rows |-> [k \in 1..Len(keys) |->
                     [date              |-> keys[k][1],
                      shift             |-> keys[k][2],
                      total_consumption |-> Sum([i \in 1..Len(Group(keys[k])) |->
                                                    Group(keys[k])[i].consumption]),
                      readings          |-> Len(Group(keys[k]))]]]

FlowShiftAggregates ==
    /\ pc = "call"
    /\ arg.fn = "flow_shift_aggregates"
    /\ IF DtRaises(arg.flow)
       THEN /\ pc' = "raise"
            /\ ret' = Exception("AttributeError")
       ELSE /\ pc' = "return"
            /\ ret' = flow_shift_aggregates(arg.flow)
    /\ UNCHANGED <<arg, scanVars>>

\* the flow frame load_flow_csv returns when it finds no block
UNTYPED_FLOW == [kind |-> "DataFrame", columns |-> FLOW_COLUMNS, typed |-> FALSE, rows |-> <<>>]

\* a flow frame with the given rows, timestamps ascending and distinct; the
\* analytics read only timestamp and consumption
FlowFramesOver(readings, n) ==
    {[kind |-> "DataFrame", columns |-> FLOW_COLUMNS, typed |-> TRUE, rows |-> s] :
        s \in AscendingFlowRows(readings, n)}

MaxShiftReadings == 2

ShiftReadings == {[timestamp |-> d * MINUTES_PER_DAY + h * MINUTES_PER_HOUR, consumption |-> d + 1] :
                     d \in {0, 1}, h \in 0..23}

InitShift ==
    /\ pc = "call"
    /\ arg \in {[fn |-> "flow_shift_aggregates", flow |-> f] :
                  f \in {UNTYPED_FLOW} \cup FlowFramesOver(ShiftReadings, MaxShiftReadings)}
    /\ ret = NoValue
    /\ ScanIdle

NextShift == FlowShiftAggregates

SpecShift == InitShift /\ [][NextShift]_vars

-----------------------------------------------------------------------------
(* humidity_vs_flow_daily, src/analytics.py *)

RECURSIVE SortedDates(_)
SortedDates(D) ==
    IF D = {} THEN <<>>
    ELSE LET m == CHOOSE d \in D : \A e \in D : d <= e
         IN  <<m>> \o SortedDates(D \ {m})

RECURSIVE Product(_)
Product(s) == IF s = <<>> THEN 1 ELSE Head(s) * Product(Tail(s))

DAILY_COLUMNS == <<"date", "total_consumption", "mean_interval", "p95_interval", "readings">>

\* lines 33-42: one row per calendar date, dates ascending; the p95_interval
\* cell, which no caller modelled here reads, is left out of the rows
flow_daily(flow) ==
    LET z == flow.rows
        dates == SortedDates({Date(z[i].timestamp) : i \in 1..Len(z)})
        Group(d) == LET OnDate(r) == Date(r.timestamp) = d IN SelectSeq(z, OnDate)
        Cons(d) == [i \in 1..Len(Group(d)) |-> Group(d)[i].consumption]
    IN  [kind |-> "DataFrame", columns |-> DAILY_COLUMNS, typed |-> TRUE,
         rows |-> [k \in 1..Len(dates) |->
                     [date              |-> dates[k],
                      total_consumption |-> Sum(Cons(dates[k])),
                      mean_interval     |-> [num |-> Sum(Cons(dates[k])), den |-> Len(Cons(dates[k]))],
                      readings          |-> Len(Cons(dates[k]))]]]

\* a correlation of NaN
NaNCorr == [cov |-> 0, var_x |-> 0, var_y |-> 0]

\* corr = None, line 139
NoCorr == [kind |-> "None"]

\* Series.corr: Pearson's r over the pairs with both values present, NaN with
\* fewer than two such pairs or with a constant side. ys are rationals; r is
\* returned as the triple (covariance, variance of x, variance of y) of the
\* series scaled to integers, r = cov / sqrt(var_x * var_y)
Corr(xs, ys) ==
    LET valid == {i \in 1..Len(xs) : ys[i] # NaNRatio}
        idx_  == SortedDates(valid)
        n     == Len(idx_)
        L     == Product([k \in 1..n |-> ys[idx_[k]].den])
        X     == [k \in 1..n |-> xs[idx_[k]]]
        Y     == [k \in 1..n |-> ys[idx_[k]].num * (L \div ys[idx_[k]].den)]
        cov   == n * Sum([k \in 1..n |-> X[k] * Y[k]]) - Sum(X) * Sum(Y)
        var_x == n * Sum([k \in 1..n |-> X[k] * X[k]]) - Sum(X) * Sum(X)
        var_y == n * Sum([k \in 1..n |-> Y[k] * Y[k]]) - Sum(Y) * Sum(Y)
    IN  IF n < 2 \/ var_x = 0 \/ var_y = 0 THEN NaNCorr
        ELSE [cov |-> cov, var_x |-> var_x, var_y |-> var_y]

HUMIDITY_COLUMNS == <<"date", "total_consumption", "humidity">>

\* a humidity_vs_flow_daily that reports nothing unless two dates join
humidity_needs_two_dates(flow, quality, humidity_name) ==
    LET fd == flow_daily(flow).rows
        IsHumidity(r) == r.parameter = humidity_name
        h  == SelectSeq(quality.rows, IsHumidity)
        OnDate(d) == LET Same(r) == Date(r.timestamp) = d IN SelectSeq(h, Same)
        Joins(r) == OnDate(r.date) # <<>>
        left == SelectSeq(fd, Joins)
        merged == [k \in 1..Len(left) |->
                     [date              |-> left[k].date,
                      total_consumption |-> left[k].total_consumption,
                      humidity          |-> SeriesMean(Values(OnDate(left[k].date)))]]
    IN  IF h = <<>> \/ Len(merged) < 2
        THEN [kind |-> "tuple",
              table |-> [kind |-> "DataFrame", columns |-> HUMIDITY_COLUMNS, typed |-> FALSE, rows |-> <<>>],
              corr |-> NoCorr]
        ELSE [kind |-> "tuple",
              table |-> [kind |-> "DataFrame", columns |-> HUMIDITY_COLUMNS, typed |-> TRUE, rows |-> merged],
              corr |-> IF \E k \in 1..Len(merged) : merged[k].humidity # NaNRatio
                       THEN Corr([k \in 1..Len(merged) |-> merged[k].total_consumption],
                                 [k \in 1..Len(merged) |-> merged[k].humidity])
                       ELSE NoCorr]

\* lines 125-143, after flow_daily(flow) has returned
humidity_vs_flow_daily(flow, quality, humidity_name) ==
    LET fd == flow_daily(flow).rows
        IsHumidity(r) == r.parameter = humidity_name
        h  == SelectSeq(quality.rows, IsHumidity)
        OnDate(d) == LET Same(r) == Date(r.timestamp) = d IN SelectSeq(h, Same)
        Joins(r) == OnDate(r.date) # <<>>
        left == SelectSeq(fd, Joins)
        merged == [k \in 1..Len(left) |->
                     [date              |-> left[k].date,
                      total_consumption |-> left[k].total_consumption,
                      humidity          |-> SeriesMean(Values(OnDate(left[k].date)))]]
    IN  IF h = <<>>
        THEN [kind |-> "tuple",
              table |-> [kind |-> "DataFrame", columns |-> HUMIDITY_COLUMNS, typed |-> FALSE, rows |-> <<>>],
              corr |-> NoCorr]
        ELSE [kind |-> "tuple",
              table |-> [kind |-> "DataFrame", columns |-> HUMIDITY_COLUMNS, typed |-> TRUE, rows |-> merged],
              corr |-> IF Len(merged) >= 2 /\ \E k \in 1..Len(merged) : merged[k].humidity # NaNRatio
                       THEN Corr([k \in 1..Len(merged) |-> merged[k].total_consumption],
                                 [k \in 1..Len(merged) |-> merged[k].humidity])
                       ELSE NoCorr]

\* line 128 calls flow_daily first, whose _add_time_parts reads timestamp.dt
HumidityVsFlowDaily ==
    /\ pc = "call"
    /\ arg.fn = "humidity_vs_flow_daily"
    /\ IF DtRaises(arg.flow)
       THEN /\ pc' = "raise"
            /\ ret' = Exception("AttributeError")
       ELSE /\ pc' = "return"
            /\ ret' = humidity_vs_flow_daily(arg.flow, arg.quality, arg.humidity_name)
    /\ UNCHANGED <<arg, scanVars>>

MaxHumidityReadings == 3

HUMIDITY == "HUMIDITY (HUMIDITY)"

HumidityFlowReadings == {[timestamp |-> d * MINUTES_PER_DAY, consumption |-> c] :
                            d \in {0, 1, 2}, c \in {1, 2}}

\* quality rows as load_quality_csv sorts them, by parameter and timestamp
HumidityQualityReadings ==
    {[parameter |-> p, timestamp |-> d * MINUTES_PER_DAY, value |-> v,
      safe_min |-> NaN, safe_max |-> NaN] :
        p \in {HUMIDITY, "TDS (TDS)"}, d \in {0, 1, 2}, v \in {10, 30, NaN}}

HumidityQualityFrames(n) ==
    {[kind |-> "DataFrame", columns |-> QUALITY_COLUMNS, typed |-> TRUE, rows |-> s] :
        s \in SortedQualityRows(HumidityQualityReadings, n)}

InitHumidity ==
    /\ pc = "call"
    /\ arg \in {[fn |-> "humidity_vs_flow_daily", flow |-> f, quality |-> q, humidity_name |-> HUMIDITY] :
                  f \in {UNTYPED_FLOW} \cup FlowFramesOver(HumidityFlowReadings, MaxHumidityReadings),
                  q \in HumidityQualityFrames(MaxHumidityReadings)}
    /\ ret = NoValue
    /\ ScanIdle

NextHumidity == HumidityVsFlowDaily

SpecHumidity == InitHumidity /\ [][NextHumidity]_vars

-----------------------------------------------------------------------------
(* flow_anomalies, src/alerts.py *)

\* the k-th value of s in ascending order
KthSmallest(s, k) ==
    CHOOSE x \in Range(s) :
        /\ Cardinality({j \in 1..Len(s) : s[j] < x}) < k
        /\ Cardinality({j \in 1..Len(s) : s[j] <= x}) >= k

\* twice the median of a non-empty sequence of numbers: the middle value, or
\* the mean of the two middle values, kept an integer by the factor 2
Median2(s) ==
    LET n == Len(s)
    IN  IF n % 2 = 1 THEN 2 * KthSmallest(s, (n + 1) \div 2)
        ELSE KthSmallest(s, n \div 2) + KthSmallest(s, n \div 2 + 1)

\* min_periods=max(6, window//4), lines 11 and 12
min_periods(window) == Max(6, window \div 4)

\* Series.rolling(window, min_periods).median() at position i: twice the median
\* of the non-NaN cells among the last 'window' cells up to i, NaN when fewer
\* than min_periods of them are present
RollingMedian2(s, window, i) ==
    LET lo == Max(1, i - window + 1)
        present == NotNaN(SubSeq(s, lo, i))
    IN  IF Len(present) < min_periods(window) THEN NaN ELSE Median2(present)

\* line 11: z["roll_med"], each cell twice its value
roll_med2(c, window) == [i \in 1..Len(c) |-> RollingMedian2(c, window, i)]

\* line 12: (z["consumption"] - z["roll_med"]).abs(), each cell twice its value
abs_dev2(c, window) ==
    [i \in 1..Len(c) |-> LET m == RollingMedian2(c, window, i)
                         IN  IF m = NaN THEN NaN ELSE Abs(2 * c[i] - m)]

\* line 12: mad, each cell four times its value
mad4(c, window) ==
    LET d == SubSeq(abs_dev2(c, window), 1, Len(c))
    IN  [i \in 1..Len(c) |-> RollingMedian2(d, window, i)]

\* a replace that leaves a MAD of zero in place
keep_zero(x) == x

\* line 13: mad.replace(0, np.nan)
replace_zero_with_nan(x) == IF x = 0 THEN NaN ELSE x

\* line 13: z["threshold"], each cell four times its value
threshold4(c, window) ==
    LET m == roll_med2(c, window)
        d == mad4(c, window)
    IN  [i \in 1..Len(c) |->
            LET mad == replace_zero_with_nan(d[i])
            IN  IF m[i] = NaN \/ mad = NaN THEN NaN ELSE 2 * m[i] + 3 * mad]

ANOMALY_COLUMNS == <<"timestamp", "consumption", "roll_med", "threshold", "anomaly">>

\* a float kept as num/den, NaN as 0/0
Ratio(num, den) == IF num = NaN THEN NaNRatio ELSE [num |-> num, den |-> den]

\* lines 6-15; a comparison with a NaN threshold is False
flow_anomalies(flow, window) ==
    LET z == flow.rows
        c == [i \in 1..Len(z) |-> z[i].consumption]
        m == roll_med2(c, window)
        t == threshold4(c, window)
    IN  [kind |-> "DataFrame", columns |-> ANOMALY_COLUMNS, typed |-> TRUE,
         rows |-> [i \in 1..Len(z) |->
                     [timestamp   |-> z[i].timestamp,
                      consumption |-> c[i],
                      roll_med    |-> Ratio(m[i], 2),
                      threshold   |-> Ratio(t[i], 4),
                      anomaly     |-> t[i] # NaN /\ 4 * c[i] > t[i]]]]

FlowAnomalies ==
    /\ pc = "call"
    /\ arg.fn = "flow_anomalies"
    /\ pc' = "return"
    /\ ret' = flow_anomalies(arg.flow, arg.window)
    /\ UNCHANGED <<arg, scanVars>>

MaxPoints == 13

READING_INTERVAL == 5

WINDOWS == {6, 24, 28}

CONSUMPTIONS == {1, 9}

\* flow series with datetime timestamps, one reading every five minutes; the
\* untyped empty frame is not in this domain
AnomalyFlows(n) ==
    {[kind |-> "DataFrame", columns |-> FLOW_COLUMNS, typed |-> TRUE,
      rows |-> [i \in 1..Len(c) |-> [timestamp |-> (i - 1) * READING_INTERVAL, consumption |-> c[i]]]] :
        c \in SeqsUpTo(CONSUMPTIONS, n)}

InitAnomaly ==
    /\ pc = "call"
    /\ arg \in {[fn |-> "flow_anomalies", flow |-> f, window |-> w] : f \in AnomalyFlows(MaxPoints), w \in WINDOWS}
    /\ ret = NoValue
    /\ ScanIdle

NextAnomaly == FlowAnomalies

SpecAnomaly == InitAnomaly /\ [][NextAnomaly]_vars

-----------------------------------------------------------------------------
(* seasonal_rollups, src/analytics.py *)

IsLeap(y) == y % 4 = 0 /\ (y % 100 # 0 \/ y % 400 = 0)

DaysInYear(y) == IF IsLeap(y) THEN 366 ELSE 365

DaysInMonth(y) == <<31, IF IsLeap(y) THEN 29 ELSE 28, 31, 30, 31, 30, 31, 31, 30, 31, 30, 31>>

\* the calendar (year, month) of a timestamp; timestamps count the minutes
\* from 01/01/2024 00:00
YearMonth(ts) ==
    LET RECURSIVE InYear(_, _)
        InYear(y, d) == IF d < DaysInYear(y) THEN <<y, d>>
                        ELSE InYear(y + 1, d - DaysInYear(y))
        yd == InYear(2024, Date(ts))
        RECURSIVE InMonth(_, _)
        InMonth(m, d) == IF d < DaysInMonth(yd[1])[m] THEN m
                         ELSE InMonth(m + 1, d - DaysInMonth(yd[1])[m])
    IN  <<yd[1], InMonth(1, yd[2])>>

\* timestamp.dt.month: 1..12
Month(ts) == YearMonth(ts)[2]

RECURSIVE SortedNumbers(_)
\* the group keys of groupby("month") in ascending order
SortedNumbers(K) ==
    IF K = {} THEN <<>>
    ELSE LET m == CHOOSE k \in K : \A j \in K : k <= j
         IN  <<m>> \o SortedNumbers(K \ {m})

\* line 113: groupby("month")["consumption"].sum()
flow_month(f) ==
    LET months == SortedNumbers({Month(f[i].timestamp) : i \in 1..Len(f)})
        Total(m) == LET InMonth(r) == Month(r.timestamp) = m
                        g == SelectSeq(f, InMonth)
                    IN  Sum([i \in 1..Len(g) |-> g[i].consumption])
    IN  [i \in 1..Len(months) |-> [month |-> months[i], total_consumption |-> Total(months[i])]]

\* lines 115-120: groupby(["parameter", "month"])["in_range"].mean() times 100,
\* kept as the fraction num/den
quality_month(q) ==
    LET keys == SortedKeys({<<q[i].parameter, Month(q[i].timestamp)>> : i \in 1..Len(q)})
        Group(key) == LET InGroup(r) == r.parameter = key[1] /\ Month(r.timestamp) = key[2]
                      IN  SelectSeq(q, InGroup)
    IN  [i \in 1..Len(keys) |->
            [parameter    |-> keys[i][1],
             month        |-> keys[i][2],
             pct_in_range |-> [num |-> 100 * CountInRange(Group(keys[i]), TRUE),
                               den |-> Len(Group(keys[i]))]]]

FLOW_MONTH_COLUMNS == <<"month", "total_consumption">>

QUALITY_MONTH_COLUMNS == <<"parameter", "month", "pct_in_range">>

\* lines 108-123
seasonal_rollups(flow, quality) ==
    [kind |-> "dict",
     flow_month    |-> [kind |-> "DataFrame", columns |-> FLOW_MONTH_COLUMNS, typed |-> TRUE,
                        rows |-> flow_month(flow.rows)],
     quality_month |-> [kind |-> "DataFrame", columns |-> QUALITY_MONTH_COLUMNS, typed |-> TRUE,
                        rows |-> quality_month(quality.rows)]]

\* lines 112 and 116: .dt raises on a frame without datetime dtype
SeasonalRollups ==
    /\ pc = "call"
    /\ arg.fn = "seasonal_rollups"
    /\ IF DtRaises(arg.flow) \/ DtRaises(arg.quality)
       THEN /\ pc' = "raise"
            /\ ret' = Exception("AttributeError")
       ELSE /\ pc' = "return"
            /\ ret' = seasonal_rollups(arg.flow, arg.quality)
    /\ UNCHANGED <<arg, scanVars>>

MaxMonthReadings == 2

\* 10 January 2024, 10 February 2024 and 10 January 2025
MONTH_TIMESTAMPS == {9 * MINUTES_PER_DAY, 40 * MINUTES_PER_DAY, 375 * MINUTES_PER_DAY}

MonthFlowReadings == {[timestamp |-> t, consumption |-> c] : t \in MONTH_TIMESTAMPS, c \in {1, 2}}

MonthQualityReadings ==
    UNION {{[timestamp |-> t, parameter |-> p, value |-> v,
             safe_min |-> BoundsOf(p)[1], safe_max |-> BoundsOf(p)[2]] :
               t \in MONTH_TIMESTAMPS,
               v \in IF p = "TDS (TDS)" THEN {25, 50} ELSE {25}} : p \in PARAMETERS}

MonthQualityFrames(n) ==
    {[kind |-> "DataFrame", columns |-> QUALITY_COLUMNS, typed |-> FALSE, rows |-> <<>>]}
    \cup {[kind |-> "DataFrame", columns |-> QUALITY_COLUMNS, typed |-> TRUE, rows |-> s] :
            s \in SortedQualityRows(MonthQualityReadings, n) \ {<<>>}}

InitMonths ==
    /\ pc = "call"
    /\ arg \in {[fn |-> "seasonal_rollups", flow |-> f, quality |-> q] :
                  f \in {UNTYPED_FLOW} \cup FlowFramesOver(MonthFlowReadings, MaxMonthReadings),
                  q \in MonthQualityFrames(MaxMonthReadings)}
    /\ ret = NoValue
    /\ ScanIdle

NextMonths == SeasonalRollups

SpecMonths == InitMonths /\ [][NextMonths]_vars

-----------------------------------------------------------------------------
(* quality_latest_breaches, src/alerts.py *)

\* a window that takes every reading of the series
whole_series(rows_) == rows_

\* lines 23-25: the readings from 24 hours before the latest timestamp on
latest_window(rows_) ==
    LET end    == SeriesMax([i \in 1..Len(rows_) |-> rows_[i].timestamp])
        start  == end - MINUTES_PER_DAY
        Within(r) == r.timestamp >= start /\ r.timestamp <= end
    IN  SelectSeq(rows_, Within)

\* lines 17-28
quality_latest_breaches(quality) ==
    IF quality.rows = <<>> THEN quality
    ELSE LET Breach(r) == ~in_range(r)
         IN  [kind |-> "DataFrame", columns |-> QUALITY_COLUMNS, typed |-> TRUE,
              rows |-> SortByParamTime(SelectSeq(latest_window(quality.rows), Breach))]

QualityLatestBreaches ==
    /\ pc = "call"
    /\ arg.fn = "quality_latest_breaches"
    /\ pc' = "return"
    /\ ret' = quality_latest_breaches(arg.quality)
    /\ UNCHANGED <<arg, scanVars>>

MaxLatestReadings == 3

\* readings more than, exactly and less than 24 hours before the latest one
LatestReadings ==
    UNION {{[timestamp |-> t, parameter |-> p, value |-> v,
             safe_min |-> BoundsOf(p)[1], safe_max |-> BoundsOf(p)[2]] :
               t \in {0, MINUTES_PER_HOUR, MINUTES_PER_DAY + MINUTES_PER_HOUR},
               v \in IF p = "TDS (TDS)" THEN {10, 25, 50} ELSE {25, NaN}} : p \in PARAMETERS}

LatestFrames(n) ==
    {[kind |-> "DataFrame", columns |-> QUALITY_COLUMNS, typed |-> FALSE, rows |-> <<>>]}
    \cup {[kind |-> "DataFrame", columns |-> QUALITY_COLUMNS, typed |-> TRUE, rows |-> s] :
            s \in SortedQualityRows(LatestReadings, n) \ {<<>>}}

InitLatest ==
    /\ pc = "call"
    /\ arg \in {[fn |-> "quality_latest_breaches", quality |-> q] : q \in LatestFrames(MaxLatestReadings)}
    /\ ret = NoValue
    /\ ScanIdle

NextLatest == QualityLatestBreaches

SpecLatest == InitLatest /\ [][NextLatest]_vars

-----------------------------------------------------------------------------
(* simple_recommendations, src/alerts.py *)

\* the advisory texts, their arrows written in ASCII
ALL_CLEAR == "All parameters within safe ranges in the last 24h."
TIP_TDS == "High TDS detected -> check RO/softener status, resin condition, and source blend."
TIP_PH == "pH out of range -> verify dosing pumps (alkali/acid), probe calibration, and tank mixing."
TIP_SOLIDS == "Suspended solids/turbidity -> inspect filters/backwash cycles and upstream settling."
TIP_BOD == "BOD/COD breaches -> check biological treatment load, aeration, and recycle ratios."
TIP_HUMIDITY == "Humidity spikes -> consider ventilation/conditioning; correlate with usage peaks."

\* the parameter names of the breach tables of the model
BREACH_NAMES == {"TDS (TDS)", "pH (pH)", "TSS (TSS)", "Turbidity (NTU)", "BOD (BOD)",
                 "COD (COD)", "HUMIDITY (HUMIDITY)", "Chlorine (Cl)"}

\* pat in p, for the names of the model (the test is case-sensitive)
Contains(p, pat) ==
    CASE pat = "TDS"      -> p = "TDS (TDS)"
      [] pat = "(pH"      -> p = "pH (pH)"
      [] pat = "pH)"      -> p = "pH (pH)"
      [] pat = "TSS"      -> p = "TSS (TSS)"
      [] pat = "Turb"     -> p = "Turbidity (NTU)"
      [] pat = "BOD"      -> p = "BOD (BOD)"
      [] pat = "COD"      -> p = "COD (COD)"
      [] pat = "HUMIDITY" -> p = "HUMIDITY (HUMIDITY)"
      [] OTHER            -> FALSE

\* tips.append(tip) under its condition
TipIf(cond, tip) == IF cond THEN <<tip>> ELSE <<>>

\* lines 30-48
simple_recommendations(quality_breaches) ==
    IF quality_breaches.rows = <<>> THEN <<ALL_CLEAR>>
    ELSE LET params == {quality_breaches.rows[i].parameter : i \in 1..Len(quality_breaches.rows)}
         IN  TipIf(\E p \in params : Contains(p, "TDS"), TIP_TDS)
             \o TipIf(\E p \in params : Contains(p, "(pH") \/ Contains(p, "pH)"), TIP_PH)
             \o TipIf(\E p \in params : Contains(p, "TSS") \/ Contains(p, "Turb"), TIP_SOLIDS)
             \o TipIf(\E p \in params : Contains(p, "BOD") \/ Contains(p, "COD"), TIP_BOD)
             \o TipIf(\E p \in params : Contains(p, "HUMIDITY"), TIP_HUMIDITY)

SimpleRecommendations ==
    /\ pc = "call"
    /\ arg.fn = "simple_recommendations"
    /\ pc' = "return"
    /\ ret' = [kind |-> "list", items |-> simple_recommendations(arg.quality_breaches)]
    /\ UNCHANGED <<arg, scanVars>>

MaxBreachRows == 3

\* one out-of-range reading per name
BreachRows == {[timestamp |-> 0, parameter |-> p, value |-> 50, safe_min |-> 20, safe_max |-> 40] :
                  p \in BREACH_NAMES}

BreachTables(n) ==
    {[kind |-> "DataFrame", columns |-> QUALITY_COLUMNS, typed |-> s # <<>>, rows |-> s] :
        s \in SeqsUpTo(BreachRows, n)}

InitRecommendations ==
    /\ pc = "call"
    /\ arg \in {[fn |-> "simple_recommendations", quality_breaches |-> b] :
                  b \in BreachTables(MaxBreachRows)}
    /\ ret = NoValue
    /\ ScanIdle

NextRecommendations == SimpleRecommendations

SpecRecommendations == InitRecommendations /\ [][NextRecommendations]_vars

-----------------------------------------------------------------------------
(* Ask-the-assistant dispatch, src/streamlit_app.py *)

\* params.get(key) of a key the plan does not give, where a number is expected
ABSENT == 0 - 3000000

\* Python truth of a number or None
TruthyNumber(x) == x # ABSENT /\ x # 0

\* Python truth of a string or None
TruthyString(x) == x # None /\ x # ""

\* lines 271-276, for an int or None
_apply_lookback(df, days) ==
    IF df.rows = <<>> \/ days = ABSENT \/ days <= 0 THEN df
    ELSE LET end    == SeriesMax([i \in 1..Len(df.rows) |-> df.rows[i].timestamp])
             start  == end - days * MINUTES_PER_DAY
             Within(r) == r.timestamp >= start /\ r.timestamp <= end
         IN  [df EXCEPT !.rows = SelectSeq(df.rows, Within)]

\* lines 293-294
LookedBack(df, lookback) == IF TruthyNumber(lookback) THEN _apply_lookback(df, lookback) ELSE df

\* what the handler has put on the page: a table (st.dataframe), a text answer,
\* or a message of st.warning / st.error
Page(message, shown, table) == [kind |-> "page", message |-> message, shown |-> shown, table |-> table]

\* lines 322-325: the parameter of the plan, or the first one of the data
DefaultParameter(param_name, qdf) ==
    LET names == {qdf.rows[i].parameter : i \in 1..Len(qdf.rows)}
    IN  IF TruthyString(param_name) THEN param_name
        ELSE IF names = {} THEN None
        ELSE CHOOSE n \in names : \A m \in names : ParamRank(n) <= ParamRank(m)

\* lines 285-358: the pages the handler can end with for a plan. An exception
\* of the analytics is caught by line 357 and shown with st.error. The bar and
\* line charts are drawn from any frame; px.scatter(trendline="ols") of a frame
\* without rows may draw or raise
Dispatch(action, param_name, lookback, min_dur, flow_df, quality_df) ==
    LET fdf == LookedBack(flow_df, lookback)
        qdf == LookedBack(quality_df, lookback)
        OfParam(r) == r.parameter = DefaultParameter(param_name, qdf)
        Named(r) == r.parameter = param_name
        LongEnough(r) == r.duration_min >= min_dur
        events == quality_breach_events(qdf).rows
        named  == IF TruthyString(param_name) THEN SelectSeq(events, Named) ELSE events
        hvf    == humidity_vs_flow_daily(fdf, qdf, HUMIDITY).table.rows
    IN  CASE action = "flow_shift" ->
               IF DtRaises(fdf) THEN {Page("error", "nothing", <<>>)}
               ELSE {Page("none", "table", flow_shift_aggregates(fdf).rows)}
          [] action = "flow_daily" ->
               IF DtRaises(fdf) THEN {Page("error", "nothing", <<>>)}
               ELSE {Page("none", "table", flow_daily(fdf).rows)}
          [] action = "quality_compliance" ->
               IF DefaultParameter(param_name, qdf) = None
               THEN {Page("warning", "nothing", <<>>)}
               ELSE IF DtRaises(qdf) THEN {Page("error", "nothing", <<>>)}
               ELSE {Page("none", "table", SelectSeq(quality_daily_compliance(qdf).rows, OfParam))}
          [] action = "breach_events" ->
               {Page("none", "table",
                     IF min_dur # ABSENT /\ named # <<>> THEN SelectSeq(named, LongEnough) ELSE named)}
          [] action = "humidity_vs_flow" ->
               IF DtRaises(fdf) THEN {Page("error", "nothing", <<>>)}
               ELSE {Page("none", "table", hvf)}
                    \cup (IF hvf = <<>> THEN {Page("error", "nothing", <<>>)} ELSE {})
          [] OTHER -> {Page("none", "text", <<>>)}

\* the Ask button pressed with a plan from plan_query
Ask ==
    /\ pc = "call"
    /\ arg.fn = "ask"
    /\ pc' = "return"
    /\ ret' \in Dispatch(arg.action, arg.parameter, arg.range_days, arg.min_duration_min,
                         arg.flow, arg.quality)
    /\ UNCHANGED <<arg, scanVars>>

MaxAskReadings == 2

ASK_ACTIONS == {"flow_shift", "flow_daily", "quality_compliance", "breach_events", "humidity_vs_flow", "none"}

\* a parameter of the data, one that no data of the model has, or none
ASKED_PARAMETERS == {None, "TDS (TDS)", "ETP (TDS)"}

RANGE_DAYS == {ABSENT, 0 - 1, 0, 1}

MIN_DURATIONS == {ABSENT, 0 - 5, 10}

AskFlows == {UNTYPED_FLOW,
             [kind |-> "DataFrame", columns |-> FLOW_COLUMNS, typed |-> TRUE,
              rows |-> <<[timestamp |-> 0, totalizer |-> 100, consumption |-> 0],
                         [timestamp |-> MINUTES_PER_DAY + 5, totalizer |-> 105, consumption |-> 5]>>]}

InitAsk ==
    /\ pc = "call"
    /\ arg \in {[fn |-> "ask", action |-> a, parameter |-> p, range_days |-> d,
                 min_duration_min |-> m, flow |-> f, quality |-> q] :
                  a \in ASK_ACTIONS, p \in ASKED_PARAMETERS, d \in RANGE_DAYS, m \in MIN_DURATIONS,
                  f \in AskFlows, q \in QualityFrames(MaxAskReadings)}
    /\ ret = NoValue
    /\ ScanIdle

NextAsk == Ask

SpecAsk == InitAsk /\ [][NextAsk]_vars

-----------------------------------------------------------------------------
(* Properties of load_flow_csv *)

Returned(fn) == pc = "return" /\ arg.fn = fn

Raised(fn) == pc = "raise" /\ arg.fn = fn

Timestamps(s) == [i \in 1..Len(s) |-> s[i].timestamp]

Totalizers(s) == [i \in 1..Len(s) |-> s[i].totalizer]

Consumptions(s) == [i \in 1..Len(s) |-> s[i].consumption]

\* a line of a flow file that is a data row with three parseable fields
ValidFlowLine(l) == /\ ~is_header(l)
                    /\ HasAllFields(l)
                    /\ FlowRowComplete(ParseFlowRow(l))

\* C1: the series load_flow_csv returns has strictly increasing timestamps,
\* consumption >= 0 on every reading and consumption 0 on the first reading.
C1_FlowSeriesInvariant ==
    Returned("load_flow_csv") =>
        /\ \A i \in 1..(Len(ret.rows) - 1) : ret.rows[i].timestamp < ret.rows[i + 1].timestamp
        /\ \A i \in 1..Len(ret.rows) : ret.rows[i].consumption >= 0
        /\ ret.rows # <<>> => ret.rows[1].consumption = 0

\* C1's case: a file with a repeated timestamp and a totalizer decrease, parsed
\* into a series of at least three readings
C1_Witness ==
    /\ Returned("load_flow_csv")
    /\ Len(ret.rows) >= 3
    /\ Len(Concat(UnsortedBlocks(ReadCsv(arg.path)))) > Len(ret.rows)
    /\ \E i \in 2..Len(ret.rows) : ret.rows[i].totalizer < ret.rows[i - 1].totalizer

\* C3: each reading's consumption is the totalizer difference from the reading
\* just before it in the returned series, a negative difference giving 0; the
\* totalizers 100, 105, 103, 110 give the consumptions 0, 5, 0, 7.
C3_ConsumptionIsClampedDifference ==
    Returned("load_flow_csv") =>
        /\ \A i \in 2..Len(ret.rows) :
              ret.rows[i].consumption =
                 Max(0, ret.rows[i].totalizer - ret.rows[i - 1].totalizer)
        /\ Totalizers(ret.rows) = <<100, 105, 103, 110>>
              => Consumptions(ret.rows) = <<0, 5, 0, 7>>

\* C3's case: the series with totalizers 100, 105, 103, 110 five minutes apart
C3_Witness ==
    /\ Returned("load_flow_csv")
    /\ Totalizers(ret.rows) = <<100, 105, 103, 110>>
    /\ Timestamps(ret.rows) = <<0, 5, 10, 15>>

\* C4: when the first line of the file is a header row, so that every data row
\* of the file lies in a block, the returned series holds the timestamp of
\* every valid data row of the file (no block is lost).
C4_EveryBlockReturned ==
    (Returned("load_flow_csv") /\ is_header(arg.path[1])) =>
        Range(Timestamps(ret.rows)) =
            {ParseFlowRow(arg.path[i]).timestamp :
                i \in {j \in 2..Len(arg.path) : ValidFlowLine(arg.path[j])}}

\* a flow file that is empty, has no header row, or has no valid data row
FlowFileWithoutData(lines) ==
    \/ lines = <<>>
    \/ \A i \in 1..Len(lines) : ~is_header(lines[i])
    \/ \A i \in 1..Len(lines) : ~ValidFlowLine(lines[i])

\* a quality file that is empty or has no parameter header line
QualityFileWithoutData(lines) ==
    \/ lines = <<>>
    \/ \A i \in 1..Len(lines) : Cells(lines[i]) = <<>> \/ ~ParamMatches(Cells(lines[i])[1])

\* C5: an empty file, a flow file without header rows or without valid rows,
\* and a quality file without matching rows make the parser return the empty
\* table with exactly its columns; no exception is raised.
C5_EmptyInputsGiveEmptyTable ==
    /\ (arg.fn = "load_flow_csv" /\ pc # "call" /\ FlowFileWithoutData(arg.path)) =>
          /\ pc = "return"
          /\ ret.rows = <<>>
          /\ ret.columns = FLOW_COLUMNS
    /\ (arg.fn = "load_quality_csv" /\ pc \in {"return", "raise"}
           /\ QualityFileWithoutData(arg.path)) =>
          /\ pc = "return"
          /\ ret.rows = <<>>
          /\ ret.columns = QUALITY_COLUMNS

-----------------------------------------------------------------------------
(* Properties of the parsers on defective rows *)

\* a flow data row with an empty cell, an unparseable date/time or an
\* unparseable number
FlowRowDefect(row) ==
    /\ ~is_header(row)
    /\ \/ \E i \in 1..3 : Strip(row[i]) = ""
       \/ ToDatetime(Strip(row[1]), Strip(row[2])) = NaT
       \/ ToNumeric(RemoveCommas(row[3])) = NaN

\* the file with the defective rows after its first line deleted
WithoutFlowDefects(lines) ==
    IF lines = <<>> THEN <<>>
    ELSE LET Sound(row) == ~FlowRowDefect(row)
         IN  <<Head(lines)>> \o SelectSeq(Tail(lines), Sound)

\* a quality data row with an empty cell or an unparseable date/time
QualityRowDefect(row) ==
    /\ ~ParamMatches(Strip(row[1]))
    /\ ~(Lower(Strip(row[1])) = "date" /\ Lower(Strip(row[2])) = "time")
    /\ \/ \E i \in 1..3 : Strip(row[i]) = ""
       \/ ToDatetime(Strip(row[1]), Strip(row[2])) = NaT

\* load_flow_csv returns for the file what it returns for the file without its
\* defective rows, and raises only for the file without any line
FlowDefectsOnlyDropRows ==
    (arg.fn = "load_flow_csv" /\ pc # "call") =>
        /\ pc = "raise" => arg.path = <<>>
        /\ pc = "return" =>
              /\ \E r \in load_flow_csv(WithoutFlowDefects(arg.path)) :
                    r.rows = ret.rows /\ r.columns = ret.columns
              /\ \A r \in load_flow_csv(WithoutFlowDefects(arg.path)) :
                    \E q \in load_flow_csv(arg.path) : q.rows = r.rows

\* scanning a defective row of a quality file changes nothing but the position,
\* so the scan goes on as if the row were not in the file
QualityDefectStep ==
    (Scanning /\ QualityRowDefect(Row)) =>
        /\ pc' = "scan"
        /\ idx' = idx + 1
        /\ UNCHANGED <<rows, current_param, safe_min, safe_max, in_table, out>>

C12_ReturnedValuesAreNumbers ==
    Returned("load_quality_csv") =>
        \A i \in 1..Len(ret.rows) : ret.rows[i].value # NaN

-----------------------------------------------------------------------------
(* Properties of load_flow_csv on repeated timestamps *)

\* the valid rows of the blocks in the order of the file
ValidRowsInFileOrder == Concat(UnsortedBlocks(ReadCsv(arg.path)))

\* the first valid row of the file with the timestamp t
FirstOccurrence(t) ==
    LET at == {i \in 1..Len(ValidRowsInFileOrder) : ValidRowsInFileOrder[i].timestamp = t}
    IN  ValidRowsInFileOrder[CHOOSE i \in at : \A j \in at : i <= j]

-----------------------------------------------------------------------------
(* Properties of the scan of load_quality_csv *)

IsParamHeaderRow(r) == Cells(r) # <<>> /\ ParamMatches(Cells(r)[1])

IsDateTimeHeaderRow(r) == /\ Len(Cells(r)) >= 3
                          /\ Lower(Cells(r)[1]) = "date"
                          /\ Lower(Cells(r)[2]) = "time"

\* a row of three cells or more whose date and time parse
IsReadingRow(r) == /\ Len(Cells(r)) >= 3
                   /\ ~IsParamHeaderRow(r)
                   /\ ~IsDateTimeHeaderRow(r)
                   /\ ToDatetime(Cells(r)[1], Cells(r)[2]) # NaT

\* the most recent parameter-header row before row k, 0 if there is none
LastParamHeader(k) ==
    LET before == {0} \cup {j \in 1..(k - 1) : IsParamHeaderRow(rows[j])}
    IN  CHOOSE h \in before : \A j \in before : j <= h

\* row k lies in the table of the most recent parameter header
InsideTable(k) ==
    /\ LastParamHeader(k) > 0
    /\ \E t \in (LastParamHeader(k) + 1)..(k - 1) : IsDateTimeHeaderRow(rows[t])

\* the safe range a parameter header states, null when it is not "a to b"
StatedRange(cell) == IF cell = PARAM_HEADER_TDS THEN <<20, 40>> ELSE <<NaN, NaN>>

ReadingOfRow(k) ==
    LET header == Cells(rows[LastParamHeader(k)])[1]
    IN  [timestamp |-> ToDatetime(Cells(rows[k])[1], Cells(rows[k])[2]),
         parameter |-> ParamGroup1(header),
         value     |-> ToNumeric(RemoveCommas(Cells(rows[k])[3])),
         safe_min  |-> StatedRange(header)[1],
         safe_max  |-> StatedRange(header)[2]]

\* the readings of the first n rows, in file order
ReadingsUpTo(n) ==
    LET Emits(k) == IsReadingRow(rows[k]) /\ InsideTable(k)
        emitting == SelectSeq([k \in 1..n |-> k], Emits)
    IN  [i \in 1..Len(emitting) |-> ReadingOfRow(emitting[i])]

InQualityScan == arg.fn = "load_quality_csv" /\ pc \in {"scan", "return"}

\* a step that scans a blank row
BlankRowStep == /\ pc = "scan" /\ idx < Len(rows) /\ Cells(rows[idx + 1]) = <<>>
                /\ idx' = idx + 1

\* C15: at every point of the scan the readings emitted are those of the rows
\* that lie after a Date/Time header following the most recent parameter
\* header, each with that header's name and safe range (null bounds when the
\* range text does not parse); a parameter header leaves in_table false;
\* a blank row changes nothing but the position.
C15_ScanStateMachine ==
    /\ [](InQualityScan => out = ReadingsUpTo(idx))
    /\ []((InQualityScan /\ idx > 0 /\ IsParamHeaderRow(rows[idx])) => ~in_table)
    /\ [][BlankRowStep =>
            UNCHANGED <<current_param, safe_min, safe_max, in_table, out, rows, pc>>]_vars

\* C15's case: a reading row between a parameter header and its Date/Time
\* header emitted nothing and a later one was emitted with null bounds
C15_Witness ==
    /\ arg.fn = "load_quality_csv" /\ pc = "return"
    /\ Len(out) = 1
    /\ out[1].safe_min = NaN /\ out[1].safe_max = NaN
    /\ \E k \in 1..Len(rows) : IsReadingRow(rows[k]) /\ LastParamHeader(k) > 0 /\ ~InsideTable(k)

-----------------------------------------------------------------------------
(* Properties of the quality analytics *)

\* safe_min <= value <= safe_max, false when a bound or the value is missing
WithinBounds(r) == /\ NaN \notin {r.value, r.safe_min, r.safe_max}
                   /\ r.safe_min <= r.value
                   /\ r.value <= r.safe_max

\* the maximal runs <<i, j>> of out-of-range readings in the readings g of one
\* parameter
MaximalRuns(g) ==
    {run \in (1..Len(g)) \X (1..Len(g)) :
        /\ run[1] <= run[2]
        /\ \A k \in run[1]..run[2] : ~WithinBounds(g[k])
        /\ run[1] = 1 \/ WithinBounds(g[run[1] - 1])
        /\ run[2] = Len(g) \/ WithinBounds(g[run[2] + 1])}

\* the event the claim describes for the run <<i, j>> of g
RunEvent(param, g, run) ==
    [parameter    |-> param,
     start        |-> g[run[1]].timestamp,
     end          |-> g[run[2]].timestamp,
     duration_min |-> g[run[2]].timestamp - g[run[1]].timestamp,
     min_value    |-> SeriesMin(Values(SubSeq(g, run[1], run[2]))),
     max_value    |-> SeriesMax(Values(SubSeq(g, run[1], run[2]))),
     readings     |-> run[2] - run[1] + 1]

\* C2: quality_breach_events returns exactly one event for every maximal run of
\* out-of-range readings of a parameter, with the run's first and last
\* timestamps, its length and its extreme values, and nothing for in-range runs.
C2_OneEventPerBreachRun ==
    Returned("quality_breach_events") =>
        \A p \in PARAMETERS :
            LET g == ParameterRows(arg.quality.rows, p)
                events == ParameterRows(ret.rows, p)
            IN  /\ Len(events) = Cardinality(MaximalRuns(g))
                /\ Range(events) = {RunEvent(p, g, run) : run \in MaximalRuns(g)}

\* the readings of quality that belong to the output row's (parameter, date)
ReadingsOf(quality, row) ==
    {i \in 1..Len(quality.rows) :
        /\ quality.rows[i].parameter = row.parameter
        /\ Date(quality.rows[i].timestamp) = row.date}

\* the general part of C7: one row per (parameter, date) in (parameter, date)
\* order, with readings, breaches and pct_in_range as the claim defines them
ComplianceRowsAsClaimed ==
    LET q == arg.quality
    IN  /\ \A i \in 1..Len(q.rows) : \E k \in 1..Len(ret.rows) : i \in ReadingsOf(q, ret.rows[k])
        /\ \A k \in 1..(Len(ret.rows) - 1) :
              \/ ParamRank(ret.rows[k].parameter) < ParamRank(ret.rows[k + 1].parameter)
              \/ /\ ret.rows[k].parameter = ret.rows[k + 1].parameter
                 /\ ret.rows[k].date < ret.rows[k + 1].date
        /\ \A k \in 1..Len(ret.rows) :
              LET row == ret.rows[k]
              IN  /\ row.readings = Cardinality(ReadingsOf(q, row))
                  /\ row.readings >= 1
                  /\ row.breaches =
                        Cardinality({i \in ReadingsOf(q, row) : ~WithinBounds(q.rows[i])})
                  /\ row.pct_in_range.num * row.readings =
                        100 * (row.readings - row.breaches) * row.pct_in_range.den

\* the claim's example: the values 10, 25, 30 with range 20..40 on one day
IsExampleGroup(q, row) ==
    /\ Cardinality(ReadingsOf(q, row)) = 3
    /\ \A v \in {10, 25, 30} : \E i \in ReadingsOf(q, row) : q.rows[i].value = v
    /\ \A i \in ReadingsOf(q, row) : q.rows[i].safe_min = 20 /\ q.rows[i].safe_max = 40

\* C7 (as amended): quality_daily_compliance emits one row per (parameter,
\* date) group in (parameter, date) order; readings is the group size, breaches
\* the number of readings not within their bounds (a reading without bounds is
\* never within them), pct_in_range = 100 * (readings - breaches) / readings,
\* unrounded: the values 10, 25, 30 with range 20..40 give breaches = 1 and
\* pct_in_range = 200/3.
C7_ComplianceRows ==
    Returned("quality_daily_compliance") =>
        /\ ComplianceRowsAsClaimed
        /\ \A k \in 1..Len(ret.rows) :
              IsExampleGroup(arg.quality, ret.rows[k]) =>
                 /\ ret.rows[k].breaches = 1
                 /\ 3 * ret.rows[k].pct_in_range.num = 200 * ret.rows[k].pct_in_range.den

\* C7 as stated: the same, with pct_in_range = 66.7 for the example
C7_AsStated ==
    Returned("quality_daily_compliance") =>
        /\ ComplianceRowsAsClaimed
        /\ \A k \in 1..Len(ret.rows) :
              IsExampleGroup(arg.quality, ret.rows[k]) =>
                 /\ ret.rows[k].breaches = 1
                 /\ 10 * ret.rows[k].pct_in_range.num = 667 * ret.rows[k].pct_in_range.den

\* C7's case: the example group has been rolled up
C7_Witness ==
    /\ Returned("quality_daily_compliance")
    /\ \E k \in 1..Len(ret.rows) : IsExampleGroup(arg.quality, ret.rows[k])

-----------------------------------------------------------------------------
(* Properties of the flow analytics *)

\* the partition of the hours the claim states
ClaimedShift(h) == IF h \in 6..13 THEN "Shift A"
                   ELSE IF h \in 14..21 THEN "Shift B"
                   ELSE "Shift C"

\* C8: _hour_to_shift maps the hours 6..13 to Shift A, 14..21 to Shift B and
\* 22, 23, 0..5 to Shift C, and no hour of 0..23 to Unknown; flow_shift_aggregates
\* groups every reading under that shift.
C8_ShiftPartition ==
    /\ \A h \in 0..23 : _hour_to_shift(h) = ClaimedShift(h) /\ _hour_to_shift(h) # "Unknown"
    /\ Returned("flow_shift_aggregates") =>
          /\ \A k \in 1..Len(ret.rows) :
                /\ ret.rows[k].shift \in {"Shift A", "Shift B", "Shift C"}
                /\ ret.rows[k].readings =
                      Cardinality({i \in 1..Len(arg.flow.rows) :
                          /\ Date(arg.flow.rows[i].timestamp) = ret.rows[k].date
                          /\ ClaimedShift(Hour(arg.flow.rows[i].timestamp)) = ret.rows[k].shift})
          /\ \A i \in 1..Len(arg.flow.rows) : \E k \in 1..Len(ret.rows) :
                /\ Date(arg.flow.rows[i].timestamp) = ret.rows[k].date
                /\ ClaimedShift(Hour(arg.flow.rows[i].timestamp)) = ret.rows[k].shift

\* C8's case: readings at the boundary hours 14 and 22 have been grouped
C8_Witness ==
    /\ Returned("flow_shift_aggregates")
    /\ \E i, j \in 1..Len(arg.flow.rows) :
          /\ Hour(arg.flow.rows[i].timestamp) = 14
          /\ Hour(arg.flow.rows[j].timestamp) = 22
    /\ \E k \in 1..Len(ret.rows) : ret.rows[k].shift = "Shift B"
    /\ \E k \in 1..Len(ret.rows) : ret.rows[k].shift = "Shift C"

\* the humidity parameter has no row in the quality series
HumidityAbsent == \A i \in 1..Len(arg.quality.rows) : arg.quality.rows[i].parameter # arg.humidity_name

\* the dates that have both a flow reading and a humidity reading
JoinedDates ==
    {Date(arg.flow.rows[i].timestamp) : i \in 1..Len(arg.flow.rows)}
    \cap {Date(arg.quality.rows[j].timestamp) :
             j \in {n \in 1..Len(arg.quality.rows) : arg.quality.rows[n].parameter = arg.humidity_name}}

-----------------------------------------------------------------------------
(* Properties of flow_anomalies *)

\* the consumption column of the flow series passed in
ConsumptionsIn == [i \in 1..Len(arg.flow.rows) |-> arg.flow.rows[i].consumption]

\* a constant stream followed by one outlier
ConstantThenOutlier(c) ==
    /\ Len(c) >= 2
    /\ \A i \in 1..(Len(c) - 1) : c[i] = c[1]
    /\ c[Len(c)] # c[1]

\* C10: flow_anomalies sets anomaly = true neither where the rolling MAD is
\* exactly zero nor before the warm-up of max(6, window/4) readings, so a
\* constant stream followed by one outlier has no flagged point.
C10_NoFlagOnZeroMadOrWarmUp ==
    Returned("flow_anomalies") =>
        /\ Len(ret.rows) = Len(arg.flow.rows)
        /\ \A i \in {n \in 1..Len(ret.rows) : ret.rows[n].anomaly} :
              /\ i >= Max(6, arg.window \div 4)
              /\ mad4(ConsumptionsIn, arg.window)[i] # 0
        /\ ConstantThenOutlier(ConsumptionsIn) =>
              \A i \in 1..Len(ret.rows) : ~ret.rows[i].anomaly

\* C10's case: past both warm-ups, an outlier above a median with MAD zero
C10_Witness ==
    /\ Returned("flow_anomalies")
    /\ ConstantThenOutlier(ConsumptionsIn)
    /\ LET n == Len(ret.rows)
       IN  /\ mad4(ConsumptionsIn, arg.window)[n] = 0
           /\ ret.rows[n].roll_med # NaNRatio
           /\ ret.rows[n].consumption * ret.rows[n].roll_med.den > ret.rows[n].roll_med.num
           /\ ret.rows[n].threshold = NaNRatio
           /\ ~ret.rows[n].anomaly

-----------------------------------------------------------------------------
(* Properties of the dispatch *)

\* the plan names a parameter for which the quality data has no reading
NamesUnknownParameter ==
    /\ arg.action \in {"quality_compliance", "breach_events"}
    /\ TruthyString(arg.parameter)
    /\ \A i \in 1..Len(arg.quality.rows) : arg.quality.rows[i].parameter # arg.parameter

\* the plan gives a look-back that is not positive or a negative minimum duration
DurationOutOfRange ==
    \/ arg.range_days # ABSENT /\ arg.range_days <= 0
    \/ arg.min_duration_min # ABSENT /\ arg.min_duration_min < 0

\* C13: a request that names a parameter the quality data does not have, or a
\* duration outside the valid range, ends with an explicit failure message,
\* never with a table shown without one.
C13_MisuseIsReported ==
    (Returned("ask") /\ arg.action # "none" /\ (NamesUnknownParameter \/ DurationOutOfRange)) =>
        ret.message # "none"

-----------------------------------------------------------------------------
(* Properties of seasonal_rollups *)

\* the calendar months in which the rows s have readings
CalendarMonths(s) == {YearMonth(s[i].timestamp) : i \in 1..Len(s)}

\* the consumption of the flow readings of one calendar month
MonthConsumption(ym) ==
    LET InMonth(r) == YearMonth(r.timestamp) = ym
        g == SelectSeq(arg.flow.rows, InMonth)
    IN  Sum([i \in 1..Len(g) |-> g[i].consumption])

\* the readings of one parameter in one calendar month
MonthReadings(p, ym) ==
    LET InGroup(r) == r.parameter = p /\ YearMonth(r.timestamp) = ym
    IN  SelectSeq(arg.quality.rows, InGroup)

ParameterMonths == {<<arg.quality.rows[i].parameter, YearMonth(arg.quality.rows[i].timestamp)>> :
                       i \in 1..Len(arg.quality.rows)}

\* C17: one flow row per calendar month with readings, holding the sum of that
\* month's consumption, and one quality row per (parameter, calendar month),
\* holding 100 times the in-range fraction of that month's readings.
C17_OneRowPerCalendarMonth ==
    Returned("seasonal_rollups") =>
        /\ Len(ret.flow_month.rows) = Cardinality(CalendarMonths(arg.flow.rows))
        /\ \A ym \in CalendarMonths(arg.flow.rows) :
              \E k \in 1..Len(ret.flow_month.rows) :
                 /\ ret.flow_month.rows[k].month = ym[2]
                 /\ ret.flow_month.rows[k].total_consumption = MonthConsumption(ym)
        /\ Len(ret.quality_month.rows) = Cardinality(ParameterMonths)
        /\ \A pm \in ParameterMonths :
              \E k \in 1..Len(ret.quality_month.rows) :
                 LET row == ret.quality_month.rows[k]
                     g   == MonthReadings(pm[1], pm[2])
                 IN  /\ row.parameter = pm[1]
                     /\ row.month = pm[2][2]
                     /\ row.pct_in_range.num * Len(g) =
                           100 * Cardinality({i \in 1..Len(g) : WithinBounds(g[i])})
                              * row.pct_in_range.den

-----------------------------------------------------------------------------
(* Properties of the alerts *)

\* the latest timestamp of the quality series passed in
LatestTimestamp ==
    CHOOSE t \in {arg.quality.rows[i].timestamp : i \in 1..Len(arg.quality.rows)} :
        \A i \in 1..Len(arg.quality.rows) : arg.quality.rows[i].timestamp <= t

\* out of range and within the 24 hours ending at the latest timestamp
LatestBreach(r) == /\ ~WithinBounds(r)
                   /\ r.timestamp >= LatestTimestamp - 24 * 60
                   /\ r.timestamp <= LatestTimestamp

\* C14: quality_latest_breaches returns exactly the out-of-range readings of
\* the 24 hours ending at the series' latest timestamp, each as often as it
\* occurs, sorted by (parameter, timestamp).
C14_LatestBreachesExactly ==
    (Returned("quality_latest_breaches") /\ arg.quality.rows # <<>>) =>
        /\ \A k \in 1..Len(ret.rows) : LatestBreach(ret.rows[k])
        /\ \A i \in 1..Len(arg.quality.rows) :
              LatestBreach(arg.quality.rows[i]) =>
                 Cardinality({k \in 1..Len(ret.rows) : ret.rows[k] = arg.quality.rows[i]})
                    = Cardinality({j \in 1..Len(arg.quality.rows) :
                                      arg.quality.rows[j] = arg.quality.rows[i]})
        /\ \A k \in 1..(Len(ret.rows) - 1) : ~KeyBefore(ret.rows[k + 1], ret.rows[k])

\* C14's case: an old breach left out, an in-range reading left out and a
\* breach of the window returned
C14_Witness ==
    /\ Returned("quality_latest_breaches")
    /\ Len(ret.rows) = 1
    /\ \E i \in 1..Len(arg.quality.rows) :
          ~WithinBounds(arg.quality.rows[i]) /\ ~LatestBreach(arg.quality.rows[i])
    /\ \E i \in 1..Len(arg.quality.rows) :
          /\ WithinBounds(arg.quality.rows[i])
          /\ arg.quality.rows[i].timestamp >= LatestTimestamp - 24 * 60

\* C18: simple_recommendations returns at least one advisory for every breach
\* table: only the all-clear message for the empty table, and at least one
\* hint when any parameter is breaching, whatever its name.
C18_AlwaysAnAdvisory ==
    Returned("simple_recommendations") =>
        /\ Len(ret.items) >= 1
        /\ arg.quality_breaches.rows = <<>> => ret.items = <<ALL_CLEAR>>
        /\ arg.quality_breaches.rows # <<>> => ALL_CLEAR \notin Range(ret.items)

=============================================================================
